---- MODULE Spec2Model ----
(***************************************************************************)
(* Daily usage limit / auto logout (Parental-Control.py).                  *)
(*                                                                         *)
(* The model covers the durable state store (load_state, save_state), the  *)
(* day accounting helpers (get_used_today, set_used_today, add_used_today),*)
(* the countdown of DailyLogoutTimerApp (__init__, rollover_if_new_day,    *)
(* maybe_show_warning, tick), the logout path (pause_and_logout, on_close, *)
(* logoff_and_quit, log_off_windows) and the environment the program runs  *)
(* in: the wall clock's day, the Tk "after" callback, the modal message    *)
(* box of log_off_windows, a process kill, a restart and a hand edit of    *)
(* the state file.                                                         *)
(***************************************************************************)
EXTENDS Integers, FiniteSets, Sequences, TLC

\* ------------------------------------------------------------ configuration

\* 60*5.1 evaluates to the float 306.0
DAILY_LIMIT_SECONDS == 306

WARNING_THRESHOLD_SECONDS == 300

DRY_RUN == TRUE

ENFORCE_LOGOUT_ON_CLOSE == TRUE

\* ------------------------------------------------------------------ bounds

\* calendar days the wall clock runs through: 1..MaxDay
MaxDay == 2

\* tick() invocations in a behaviour, over all runs of the program
MaxTicks == 4

\* runs of the program (process starts)
MaxRuns == 2

\* hand edits of the state file
MaxEdits == 1

\* direct calls of set_used_today / add_used_today (specification SpecApi)
MaxApiOps == 2

Days == 1..MaxDay

\* ------------------------------------------------------------ JSON values

\* A JSON value of the "daily_limit_seconds" field: an integer, a float
\* (Python keeps 306.0 a float through json.dump / json.load) or no field.
IntVal(n) == [t |-> "int", v |-> n]

FloatVal(n) == [t |-> "float", v |-> n]

NoVal == [t |-> "none", v |-> 0]

\* limits a hand edit may write
EditLimits == {3}

\* seconds a state file may record for the day the model starts on
FileUsedToday == {0, 3, 298}

\* seconds a state file may record for the day after
FileUsedNext == {298}

\* a Python dict day -> seconds: a function on a subset of the days
EmptyDict == [d \in {} |-> 0]

\* the dicts a state file may hold at the start: it records the first day,
\* the second, both or neither
UsageDicts ==
  UNION {[S -> FileUsedToday \cup FileUsedNext] : S \in SUBSET {1, 2}}
    \ {m \in UNION {[S -> FileUsedToday \cup FileUsedNext] : S \in SUBSET {1, 2}} :
         \/ (1 \in DOMAIN m /\ m[1] \notin FileUsedToday)
         \/ (2 \in DOMAIN m /\ m[2] \notin FileUsedNext)}

\* the "usage" field of a file: a dict, a number, or no field
DictVal(m) == [t |-> "dict", m |-> m]

NumVal == [t |-> "num", m |-> EmptyDict]

NoUsage == [t |-> "none", m |-> EmptyDict]

\* contents of a path on disk
Absent == [kind |-> "absent", daily_limit_seconds |-> NoVal, usage |-> NoUsage]

\* not parsable as JSON: an empty, truncated or otherwise broken file
Garbage == [kind |-> "garbage", daily_limit_seconds |-> NoVal, usage |-> NoUsage]

JsonFile(l, u) == [kind |-> "json", daily_limit_seconds |-> l, usage |-> u]

\* the state files the model starts from: every recorded usage under a
\* limit below the warning threshold and under one equal to it, a limit
\* just above the threshold and the float the program itself writes with
\* little on record, and the files load_state repairs
InitFiles ==
  {Absent, Garbage, JsonFile(IntVal(2), NumVal), JsonFile(IntVal(2), NoUsage),
   JsonFile(NoVal, NoUsage), JsonFile(NoVal, DictVal([d \in {1} |-> 3]))}
    \cup {JsonFile(IntVal(n), DictVal(m)) : n \in {2, 300}, m \in UsageDicts}
    \cup {JsonFile(l, DictVal(m)) :
            l \in {IntVal(301), FloatVal(DAILY_LIMIT_SECONDS)},
            m \in {EmptyDict, [d \in {1} |-> 3]}}

Max(a, b) == IF a >= b THEN a ELSE b

\* int(x) of a limit value: DAILY_LIMIT_SECONDS is a whole float
IntOf(l) == l.v


\* ------------------------------------------------------ durable state store

\* the dict load_state builds first
default_state == [daily_limit_seconds |-> FloatVal(DAILY_LIMIT_SECONDS), usage |-> EmptyDict]

\* a json.dump that writes the limit as a float
json_dump_float_limit(st) ==
  JsonFile(FloatVal(st.daily_limit_seconds.v), DictVal(st.usage))

\* json.dump(state, f): the document written for an in-memory state
json_dump(st) == JsonFile(st.daily_limit_seconds, DictVal(st.usage))

\* where a process kill may interrupt save_state: while the temporary file
\* is being written, after it is closed and before os.replace, or not at all
SavePoints == {"write", "replace", "done"}

\* a save_state that writes the target path in place, without the
\* temporary file and os.replace
save_state_in_place(st, f, t, pt) ==
  IF pt = "write" THEN [file |-> Garbage, tmp |-> t]
  ELSE [file |-> json_dump(st), tmp |-> t]

\* save_state(state) run up to the point pt, on a target file f and a
\* temporary file t: the contents of both paths afterwards
save_state(st, f, t, pt) ==
  IF pt = "write" THEN [file |-> f, tmp |-> Garbage]
  ELSE IF pt = "replace" THEN [file |-> f, tmp |-> json_dump(st)]
  ELSE [file |-> json_dump(st), tmp |-> Absent]

\* a load_state that resets daily_limit_seconds to the default whatever the
\* file holds
load_state_default_limit(f) ==
  IF f.kind # "json" THEN [state |-> default_state, saves |-> TRUE]
  ELSE [state |-> [daily_limit_seconds |-> FloatVal(DAILY_LIMIT_SECONDS),
                   usage |-> IF f.usage.t = "dict" THEN f.usage.m ELSE EmptyDict],
        saves |-> TRUE]

\* a load_state that falls back to the whole default dict when the usage
\* field is missing or not a dict
load_state_resets_all(f) ==
  IF f.kind # "json" THEN [state |-> default_state, saves |-> TRUE]
  ELSE IF f.usage.t # "dict" THEN [state |-> default_state, saves |-> TRUE]
  ELSE IF f.daily_limit_seconds.t # "int"
  THEN [state |-> [daily_limit_seconds |-> FloatVal(DAILY_LIMIT_SECONDS),
                   usage |-> f.usage.m],
        saves |-> TRUE]
  ELSE [state |-> [daily_limit_seconds |-> f.daily_limit_seconds, usage |-> f.usage.m],
        saves |-> FALSE]

\* load_state() on a target file f: the dict it returns and whether it
\* calls save_state on the way
load_state(f) ==
  IF f.kind = "absent" THEN [state |-> default_state, saves |-> TRUE]
  ELSE IF f.kind # "json" THEN [state |-> default_state, saves |-> TRUE]
  ELSE LET usage == IF f.usage.t = "dict" THEN f.usage.m ELSE EmptyDict
       IN IF f.daily_limit_seconds.t # "int"
          THEN [state |-> [daily_limit_seconds |-> FloatVal(DAILY_LIMIT_SECONDS),
                           usage |-> usage],
                saves |-> TRUE]
          ELSE [state |-> [daily_limit_seconds |-> f.daily_limit_seconds,
                           usage |-> usage],
                saves |-> FALSE]

\* ------------------------------------------------------------ day accounting

get_used_today(st, d) == IF d \in DOMAIN st.usage THEN st.usage[d] ELSE 0

\* dict assignment usage[d] = v
DictPut(m, d, v) == [x \in DOMAIN m \cup {d} |-> IF x = d THEN v ELSE m[x]]

\* set_used_today(state, day, value), its save_state run up to pt: the dict
\* and the two paths afterwards
set_used_today(st, d, value, f, t, pt) ==
  LET st2 == [st EXCEPT !.usage = DictPut(st.usage, d, Max(0, value))]
      sv == save_state(st2, f, t, pt)
  IN [state |-> st2, file |-> sv.file, tmp |-> sv.tmp]

\* an add_used_today that leaves out its save_state
add_used_today_unsaved(st, d, delta, f, t, pt) ==
  LET new_val == Max(0, get_used_today(st, d)) + delta
      st2 == [st EXCEPT !.usage = DictPut(st.usage, d, new_val)]
  IN [state |-> st2, ret |-> new_val, file |-> f, tmp |-> t]

\* an add_used_today that counts one second whatever delta it is given
add_used_today_by_one(st, d, delta, f, t, pt) ==
  LET new_val == Max(0, get_used_today(st, d)) + 1
      st2 == [st EXCEPT !.usage = DictPut(st.usage, d, new_val)]
      sv == save_state(st2, f, t, pt)
  IN [state |-> st2, ret |-> new_val, file |-> sv.file, tmp |-> sv.tmp]

\* add_used_today(state, day, delta), its save_state run up to pt: the dict,
\* the value returned and the two paths afterwards
add_used_today(st, d, delta, f, t, pt) ==
  LET new_val == Max(0, get_used_today(st, d)) + delta
      st2 == [st EXCEPT !.usage = DictPut(st.usage, d, new_val)]
      sv == save_state(st2, f, t, pt)
  IN [state |-> st2, ret |-> new_val, file |-> sv.file, tmp |-> sv.tmp]

\* ---------------------------------------------------------- logout action

\* log_off_windows(): with DRY_RUN it shows a modal message box and returns
\* when the box is dismissed; Tk keeps serving the event loop meanwhile
log_off_windows == IF DRY_RUN THEN "showinfo" ELSE "logoff"

\* the platforms platform.system() may name
Platforms == {"Windows", "Linux"}

\* a log_off_windows() that was not called
NoOutcome == [attempts |-> <<>>, box |-> "none", errors |-> <<>>, logged_off |-> FALSE]

\* a log_off_windows that calls ExitWindowsEx after shutdown /l whether or
\* not shutdown /l failed
log_off_windows_both(dry, sys, primary_ok, fallback_ok) ==
  IF dry
  THEN [attempts |-> <<>>, box |-> "showinfo", errors |-> <<>>, logged_off |-> FALSE]
  ELSE IF sys # "Windows"
  THEN [attempts |-> <<>>, box |-> "showwarning", errors |-> <<>>, logged_off |-> FALSE]
  ELSE IF primary_ok \/ fallback_ok
  THEN [attempts |-> <<"shutdown", "ExitWindowsEx">>, box |-> "none", errors |-> <<>>,
        logged_off |-> TRUE]
  ELSE [attempts |-> <<"shutdown", "ExitWindowsEx">>, box |-> "showerror",
        errors |-> <<"shutdown", "ExitWindowsEx">>, logged_off |-> FALSE]

\* a log_off_windows without the platform test
log_off_windows_any_platform(dry, sys, primary_ok, fallback_ok) ==
  IF dry
  THEN [attempts |-> <<>>, box |-> "showinfo", errors |-> <<>>, logged_off |-> FALSE]
  ELSE IF primary_ok
  THEN [attempts |-> <<"shutdown">>, box |-> "none", errors |-> <<>>, logged_off |-> TRUE]
  ELSE IF fallback_ok
  THEN [attempts |-> <<"shutdown", "ExitWindowsEx">>, box |-> "none", errors |-> <<>>,
        logged_off |-> TRUE]
  ELSE [attempts |-> <<"shutdown", "ExitWindowsEx">>, box |-> "showerror",
        errors |-> <<"shutdown", "ExitWindowsEx">>, logged_off |-> FALSE]

\* log_off_windows() with DRY_RUN = dry on the platform sys, where
\* "shutdown /l" succeeds iff primary_ok and ExitWindowsEx iff fallback_ok:
\* the primitives it attempts in order, the message box it shows, the
\* exceptions the box reports and whether the session was logged off
log_off_windows_in(dry, sys, primary_ok, fallback_ok) ==
  IF dry
  THEN [attempts |-> <<>>, box |-> "showinfo", errors |-> <<>>, logged_off |-> FALSE]
  ELSE IF sys # "Windows"
  THEN [attempts |-> <<>>, box |-> "showwarning", errors |-> <<>>, logged_off |-> FALSE]
  ELSE IF primary_ok
  THEN [attempts |-> <<"shutdown">>, box |-> "none", errors |-> <<>>, logged_off |-> TRUE]
  ELSE IF fallback_ok
  THEN [attempts |-> <<"shutdown", "ExitWindowsEx">>, box |-> "none", errors |-> <<>>,
        logged_off |-> TRUE]
  ELSE [attempts |-> <<"shutdown", "ExitWindowsEx">>, box |-> "showerror",
        errors |-> <<"shutdown", "ExitWindowsEx">>, logged_off |-> FALSE]

\* logoff_and_quit(): the window is destroyed once log_off_windows returns;
\* until then a pending after() callback stays pending
logoff_and_quit(pending) ==
  IF log_off_windows = "showinfo"
  THEN [phase |-> "dialog", scheduled |-> pending]
  ELSE [phase |-> "destroyed", scheduled |-> FALSE]

\* ------------------------------------------------------- countdown engine

\* the fields __init__ sets at lines 169-176
new_session(st, today) ==
  [state |-> st,
   day |-> today,
   daily_limit |-> IntOf(st.daily_limit_seconds),
   used_today |-> get_used_today(st, today),
   remaining |-> Max(0, IntOf(st.daily_limit_seconds) - get_used_today(st, today)),
   warning_threshold |-> WARNING_THRESHOLD_SECONDS,
   warning_shown |-> FALSE]

\* no process: no session
NoSelf ==
  [state |-> [daily_limit_seconds |-> NoVal, usage |-> EmptyDict],
   day |-> 0, daily_limit |-> 0, used_today |-> 0, remaining |-> 0,
   warning_threshold |-> 0, warning_shown |-> FALSE]

\* a rollover that computes remaining without the max(0, ...)
rollover_unclamped(s, today) ==
  IF today # s.day
  THEN [s EXCEPT !.day = today,
                 !.used_today = get_used_today(s.state, today),
                 !.remaining = s.daily_limit - get_used_today(s.state, today),
                 !.warning_shown = FALSE]
  ELSE s

\* a rollover that leaves warning_shown as it was
rollover_keeps_warning(s, today) ==
  IF today # s.day
  THEN [s EXCEPT !.day = today,
                 !.used_today = get_used_today(s.state, today),
                 !.remaining = Max(0, s.daily_limit - get_used_today(s.state, today))]
  ELSE s

rollover_if_new_day(s, today) ==
  IF today # s.day
  THEN [s EXCEPT !.day = today,
                 !.used_today = get_used_today(s.state, today),
                 !.remaining = Max(0, s.daily_limit - get_used_today(s.state, today)),
                 !.warning_shown = FALSE]
  ELSE s

\* a popup that does not record that it was shown
show_warning_popup_unrecorded(s) == s

show_warning_popup(s) == [s EXCEPT !.warning_shown = TRUE]

\* a warning check that needs the limit to exceed the threshold
warning_due_strict_limit(s) ==
  /\ ~s.warning_shown
  /\ s.daily_limit > s.warning_threshold
  /\ s.remaining <= s.warning_threshold
  /\ s.remaining > 0

\* the condition under which maybe_show_warning shows the popup
warning_due(s) ==
  /\ ~s.warning_shown
  /\ s.daily_limit >= s.warning_threshold
  /\ s.remaining <= s.warning_threshold
  /\ s.remaining > 0

maybe_show_warning(s) == IF warning_due(s) THEN show_warning_popup(s) ELSE s

\* the startup check with < in place of <=
startup_exhausted_strict(s) == s.remaining < 0

\* the condition of __init__ for logging off at once (line 234)
startup_exhausted(s) == s.remaining <= 0

\* the startup popup check with < in place of the second <=
startup_warning_strict(s) ==
  s.daily_limit >= s.warning_threshold /\ s.remaining < s.warning_threshold

\* the condition of __init__ for the immediate popup (line 243)
startup_warning(s) ==
  s.daily_limit >= s.warning_threshold /\ s.remaining <= s.warning_threshold

\* a tick whose zero check is remaining < 0
tick_zero_strict(s, today, f, t, pt) ==
  LET s1 == rollover_if_new_day(s, today)
  IN IF s1.remaining < 0
     THEN [rolled |-> s1, self |-> s1, logoff |-> TRUE, warned |-> FALSE,
           again |-> FALSE, file |-> f, tmp |-> t]
     ELSE LET s2 == maybe_show_warning(s1)
              a == add_used_today(s2.state, s2.day, 1, f, t, pt)
              s3 == [s2 EXCEPT !.state = a.state,
                               !.used_today = a.ret,
                               !.remaining = Max(0, s2.daily_limit - a.ret)]
          IN [rolled |-> s1, self |-> s3, logoff |-> FALSE, warned |-> warning_due(s1),
              again |-> TRUE, file |-> a.file, tmp |-> a.tmp]

\* a tick that makes its zero check after the accrual: it logs off in the
\* tick that brings remaining to 0 and schedules nothing
tick_checks_after(s, today, f, t, pt) ==
  LET s1 == rollover_if_new_day(s, today)
  IN IF s1.remaining <= 0
     THEN [rolled |-> s1, self |-> s1, logoff |-> TRUE, warned |-> FALSE,
           again |-> FALSE, file |-> f, tmp |-> t]
     ELSE LET s2 == maybe_show_warning(s1)
              a == add_used_today(s2.state, s2.day, 1, f, t, "done")
              s3 == [s2 EXCEPT !.state = a.state,
                               !.used_today = a.ret,
                               !.remaining = Max(0, s2.daily_limit - a.ret)]
          IN [rolled |-> s1, self |-> s3, logoff |-> s3.remaining <= 0,
              warned |-> warning_due(s1), again |-> s3.remaining > 0,
              file |-> a.file, tmp |-> a.tmp]

\* tick() of a session s when the clock reads today, the save_state of its
\* accrual run up to pt: the session after the rollover check, the session
\* at the end, whether it logged off, whether it showed the popup, whether
\* it scheduled the next tick, and the two paths afterwards
tick(s, today, f, t, pt) ==
  LET s1 == rollover_if_new_day(s, today)
  IN IF s1.remaining <= 0
     THEN [rolled |-> s1, self |-> s1, logoff |-> TRUE, warned |-> FALSE,
           again |-> FALSE, file |-> f, tmp |-> t]
     ELSE LET s2 == maybe_show_warning(s1)
              a == add_used_today(s2.state, s2.day, 1, f, t, pt)
              s3 == [s2 EXCEPT !.state = a.state,
                               !.used_today = a.ret,
                               !.remaining = Max(0, s2.daily_limit - a.ret)]
          IN [rolled |-> s1, self |-> s3, logoff |-> FALSE, warned |-> warning_due(s1),
              again |-> TRUE, file |-> a.file, tmp |-> a.tmp]


\* ------------------------------------------------------------------- state

VARIABLES
  file,       \* contents of state.json
  tmp,        \* contents of state.json.tmp
  now,        \* the day today_str() returns
  phase,      \* "off": no process; "running": the main loop; "dialog": the
              \* message box of log_off_windows is open; "destroyed": root.destroy() done
  scheduled,  \* an after(1000, self.tick) callback is pending
  self,       \* the fields of DailyLogoutTimerApp
  runs,       \* processes started so far
  ticks,      \* tick() invocations of this run
  logouts,    \* log_off_windows() invocations of this run
  countdowns, \* those of them made by tick() (line 330)
  warnings,   \* show_warning_popup() invocations of this run since the last rollover
  warnTick,   \* the value of ticks at the last of them, -1 if none
  rolled,     \* the last tick's rollover check: the session before and after it
  start,      \* what __init__ computed at lines 169-173 of this run
  lastOp,     \* the last operation
  edits,      \* hand edits of state.json so far
  edited,     \* the last hand edit made during a run
  saving,     \* the last save_state call: the target before it, the document saved,
              \* the day it was made for and that day's usage in memory before
  apiOps,     \* direct calls of the day accounting so far
  allTicks,   \* tick() invocations of all runs
  acct,       \* the add_used_today calls with a delta >= 0 made in a row on one
              \* day: the day, its usage before the first and the sum of the deltas
  accrued,    \* seconds the ticks of this run have accrued on self.day
  logoff      \* the last log_off_windows() call: its mode, platform, the outcome
              \* of the two primitives and what it did

vars == <<file, tmp, now, phase, scheduled, self, runs, ticks, logouts, countdowns, warnings,
          warnTick, rolled, start, lastOp, edits, edited, saving, apiOps, allTicks, acct,
          accrued, logoff>>

NoRolled == [did |-> FALSE, pre |-> NoSelf, post |-> NoSelf]

NoStart ==
  [day |-> 0, used |-> 0, remaining |-> 0, daily_limit |-> 0, usage |-> NoUsage,
   read |-> Absent, loaded |-> default_state]

NoEdit == [on |-> FALSE, v |-> 0, old |-> 0, run |-> 0, rolled |-> FALSE]

NoSaving ==
  [on |-> FALSE, before |-> Absent, new |-> Absent, day |-> 0, old |-> 0, arg |-> 0, ret |-> 0]

NoAcct == [on |-> FALSE, day |-> 0, base |-> 0, sum |-> 0]

NoLogoff == [on |-> FALSE, dry |-> FALSE, sys |-> "none", primary_ok |-> FALSE,
             fallback_ok |-> FALSE, out |-> NoOutcome]

\* the record of a log_off_windows() call made by the program as configured
OwnLogoff ==
  [on |-> TRUE, dry |-> DRY_RUN, sys |-> "Windows", primary_ok |-> TRUE, fallback_ok |-> TRUE,
   out |-> log_off_windows_in(DRY_RUN, "Windows", TRUE, TRUE)]

Init ==
  /\ file \in InitFiles
  /\ tmp = Absent
  /\ now = 1
  /\ phase = "off"
  /\ scheduled = FALSE
  /\ self = NoSelf
  /\ runs = 0
  /\ ticks = 0
  /\ logouts = 0
  /\ countdowns = 0
  /\ warnings = 0
  /\ warnTick = -1
  /\ rolled = NoRolled
  /\ start = NoStart
  /\ lastOp = "init"
  /\ edits = 0
  /\ edited = NoEdit
  /\ saving = NoSaving
  /\ apiOps = 0
  /\ acct = NoAcct
  /\ accrued = 0
  /\ logoff = NoLogoff
  /\ allTicks = 0

\* ----------------------------------------------------------------- actions

\* main(): load_state and DailyLogoutTimerApp.__init__, which ends in
\* logoff_and_quit or in the first tick(). p1 is where the save_state of
\* load_state is interrupted, p2 where the one of the first tick is.
Start(p1, p2) ==
  /\ phase \in {"off", "destroyed"}
  /\ runs < MaxRuns
  /\ LET ld == load_state(file)
         sv == IF ld.saves THEN save_state(ld.state, file, tmp, p1)
                           ELSE [file |-> file, tmp |-> tmp]
         sav1 == IF ld.saves
                 THEN [on |-> TRUE, before |-> file, new |-> json_dump(ld.state), day |-> now,
                       old |-> 0, arg |-> 0, ret |-> 0]
                 ELSE saving
         s0 == new_session(ld.state, now)
         s1 == IF startup_warning(s0) THEN show_warning_popup(s0) ELSE s0
         r == tick(s1, now, sv.file, sv.tmp, p2)
         lq == logoff_and_quit(FALSE)
         w0 == IF startup_warning(s0) THEN 1 ELSE 0
     IN /\ (~ld.saves => p1 = "done")
        /\ (~startup_exhausted(s0) /\ p1 = "done" => allTicks < MaxTicks)
        /\ allTicks' = IF ~startup_exhausted(s0) /\ p1 = "done" THEN allTicks + 1 ELSE allTicks
        /\ countdowns' = IF ~startup_exhausted(s0) /\ p1 = "done" /\ r.logoff THEN 1 ELSE 0
        /\ runs' = runs + 1
        /\ start' = [day |-> s0.day, used |-> s0.used_today, remaining |-> s0.remaining,
                     daily_limit |-> s0.daily_limit, usage |-> file.usage,
                     read |-> file, loaded |-> ld.state]
        /\ rolled' = NoRolled
        /\ UNCHANGED <<now, edits, edited, apiOps, acct>>
        /\ \/ /\ p1 # "done" /\ p2 = "done"
              /\ file' = sv.file /\ tmp' = sv.tmp
              /\ self' = NoSelf /\ phase' = "off" /\ scheduled' = FALSE
              /\ ticks' = 0 /\ logouts' = 0 /\ warnings' = 0 /\ warnTick' = -1
              /\ saving' = sav1
              /\ accrued' = 0 /\ logoff' = NoLogoff
              /\ lastOp' = "start_crash"
           \/ /\ p1 = "done" /\ p2 = "done" /\ startup_exhausted(s0)
              /\ file' = sv.file /\ tmp' = sv.tmp
              /\ self' = s0 /\ phase' = lq.phase /\ scheduled' = lq.scheduled
              /\ ticks' = 0 /\ logouts' = 1 /\ warnings' = 0 /\ warnTick' = -1
              /\ saving' = sav1
              /\ accrued' = 0 /\ logoff' = OwnLogoff
              /\ lastOp' = "start_logout"
           \/ /\ p1 = "done" /\ p2 = "done" /\ ~startup_exhausted(s0)
              /\ file' = r.file /\ tmp' = r.tmp
              /\ self' = r.self
              /\ phase' = IF r.logoff THEN lq.phase ELSE "running"
              /\ scheduled' = r.again
              /\ ticks' = 1 /\ logouts' = IF r.logoff THEN 1 ELSE 0
              /\ warnings' = w0 + (IF r.warned THEN 1 ELSE 0)
              /\ warnTick' = IF r.warned THEN 1 ELSE IF w0 = 1 THEN 0 ELSE -1
              /\ saving' = IF r.logoff THEN sav1
                            ELSE [on |-> TRUE, before |-> sv.file,
                                  new |-> json_dump(r.self.state), day |-> r.self.day,
                                  old |-> get_used_today(ld.state, r.self.day),
                                  arg |-> 1, ret |-> r.self.used_today]
              /\ accrued' = IF r.logoff THEN 0 ELSE 1
              /\ logoff' = IF r.logoff THEN OwnLogoff ELSE NoLogoff
              /\ lastOp' = IF r.logoff THEN "tick_logout" ELSE "start"
           \/ /\ p1 = "done" /\ p2 # "done" /\ ~startup_exhausted(s0) /\ ~r.logoff
              /\ file' = r.file /\ tmp' = r.tmp
              /\ self' = NoSelf /\ phase' = "off" /\ scheduled' = FALSE
              /\ ticks' = 1 /\ logouts' = 0
              /\ warnings' = w0 + (IF r.warned THEN 1 ELSE 0)
              /\ warnTick' = IF r.warned THEN 1 ELSE IF w0 = 1 THEN 0 ELSE -1
              /\ saving' = [on |-> TRUE, before |-> sv.file,
                            new |-> json_dump(r.self.state), day |-> r.self.day,
                            old |-> get_used_today(ld.state, r.self.day),
                            arg |-> 1, ret |-> r.self.used_today]
              /\ accrued' = 0 /\ logoff' = NoLogoff
              /\ lastOp' = "start_tick_crash"

\* the after() callback: tick(). Tk runs it from the main loop and from the
\* event loop of an open message box alike. pt is where the save_state of
\* the accrual is interrupted.
Tick(pt) ==
  /\ scheduled
  /\ phase \in {"running", "dialog"}
  /\ allTicks < MaxTicks
  /\ allTicks' = allTicks + 1
  /\ LET r == tick(self, now, file, tmp, pt)
         did == now # self.day
         lq == logoff_and_quit(FALSE)
         w0 == IF did THEN 0 ELSE warnings
     IN /\ (r.logoff => pt = "done")
        /\ ticks' = ticks + 1
        /\ rolled' = [did |-> did, pre |-> self, post |-> r.rolled]
        /\ warnings' = w0 + (IF r.warned THEN 1 ELSE 0)
        /\ warnTick' = IF r.warned THEN ticks + 1 ELSE IF did THEN -1 ELSE warnTick
        /\ edited' = IF edited.on /\ edited.run = runs /\ did
                     THEN [edited EXCEPT !.rolled = TRUE] ELSE edited
        /\ file' = r.file /\ tmp' = r.tmp
        /\ UNCHANGED <<now, runs, start, edits, apiOps>>
        /\ IF r.logoff
           THEN /\ self' = r.self /\ phase' = lq.phase /\ scheduled' = lq.scheduled
                /\ logouts' = logouts + 1
                /\ countdowns' = countdowns + 1
                /\ saving' = saving
                /\ acct' = acct
                /\ accrued' = IF did THEN 0 ELSE accrued
                /\ logoff' = OwnLogoff
                /\ lastOp' = "tick_logout"
           ELSE /\ logouts' = logouts
                /\ countdowns' = countdowns
                /\ saving' = [on |-> TRUE, before |-> file,
                              new |-> json_dump(r.self.state), day |-> r.self.day,
                              old |-> get_used_today(self.state, r.self.day),
                              arg |-> 1, ret |-> r.self.used_today]
                /\ acct' = IF acct.on /\ acct.day = r.self.day
                           THEN [acct EXCEPT !.sum = @ + 1] ELSE acct
                /\ accrued' = IF did THEN 1 ELSE accrued + 1
                /\ logoff' = logoff
                /\ IF pt = "done"
                   THEN /\ self' = r.self /\ phase' = phase /\ scheduled' = r.again
                        /\ lastOp' = "tick"
                   ELSE /\ self' = NoSelf /\ phase' = "off" /\ scheduled' = FALSE
                        /\ lastOp' = "tick_crash"

\* the "Pause & Log Out" button: pause_and_logout()
Pause ==
  /\ phase = "running"
  /\ LET lq == logoff_and_quit(scheduled)
     IN /\ phase' = lq.phase /\ scheduled' = lq.scheduled
  /\ logouts' = logouts + 1
  /\ logoff' = OwnLogoff
  /\ lastOp' = "pause"
  /\ UNCHANGED <<file, tmp, now, self, runs, ticks, countdowns, warnings, warnTick, rolled,
                 start, edits, edited, saving, apiOps, allTicks, acct, accrued>>

\* WM_DELETE_WINDOW: on_close()
Close ==
  /\ phase = "running"
  /\ LET lq == logoff_and_quit(scheduled)
     IN IF ENFORCE_LOGOUT_ON_CLOSE
        THEN /\ phase' = lq.phase /\ scheduled' = lq.scheduled
             /\ logouts' = logouts + 1
             /\ logoff' = OwnLogoff
        ELSE /\ phase' = "destroyed" /\ scheduled' = FALSE
             /\ logouts' = logouts
             /\ logoff' = logoff
  /\ lastOp' = "close"
  /\ UNCHANGED <<file, tmp, now, self, runs, ticks, countdowns, warnings, warnTick, rolled,
                 start, edits, edited, saving, apiOps, allTicks, acct, accrued>>

\* the message box of log_off_windows is dismissed: log_off_windows returns
\* and logoff_and_quit destroys the window, which cancels the callbacks
Dismiss ==
  /\ phase = "dialog"
  /\ phase' = "destroyed"
  /\ scheduled' = FALSE
  /\ lastOp' = "dismiss"
  /\ UNCHANGED <<file, tmp, now, self, runs, ticks, logouts, countdowns, warnings, warnTick,
                 rolled, start, edits, edited, saving, apiOps, allTicks, acct, accrued, logoff>>

\* midnight passes: today_str() returns the next day
ClockAdvance ==
  /\ now < MaxDay
  /\ now' = now + 1
  /\ lastOp' = "clock"
  /\ UNCHANGED <<file, tmp, phase, scheduled, self, runs, ticks, logouts, countdowns, warnings,
                 warnTick, rolled, start, edits, edited, saving, apiOps, allTicks, acct, accrued,
                 logoff>>

\* the process is killed between two callbacks
Crash ==
  /\ phase \in {"running", "dialog"}
  /\ phase' = "off"
  /\ scheduled' = FALSE
  /\ self' = NoSelf
  /\ lastOp' = "crash"
  /\ UNCHANGED <<file, tmp, now, runs, ticks, logouts, countdowns, warnings, warnTick, rolled,
                 start, edits, edited, saving, apiOps, allTicks, acct, accrued, logoff>>

\* somebody edits daily_limit_seconds in state.json while the program runs
Edit(v) ==
  /\ phase \in {"running", "dialog"}
  /\ file.kind = "json"
  /\ edits < MaxEdits
  /\ file.daily_limit_seconds # IntVal(v)
  /\ file' = [file EXCEPT !.daily_limit_seconds = IntVal(v)]
  /\ edits' = edits + 1
  /\ edited' = [on |-> TRUE, v |-> v, old |-> self.daily_limit, run |-> runs,
                rolled |-> FALSE]
  /\ lastOp' = "edit"
  /\ UNCHANGED <<tmp, now, phase, scheduled, self, runs, ticks, logouts, countdowns, warnings,
                 warnTick, rolled, start, saving, apiOps, allTicks, acct, accrued, logoff>>

Next ==
  \/ \E p1 \in SavePoints, p2 \in SavePoints : Start(p1, p2)
  \/ \E pt \in SavePoints : Tick(pt)
  \/ Pause
  \/ Close
  \/ Dismiss
  \/ ClockAdvance
  \/ Crash
  \/ \E v \in EditLimits : Edit(v)

Spec == Init /\ [][Next]_vars

\* ------------------------------------------- the day accounting called directly

\* values a caller may pass to set_used_today
ApiValues == {-1, 2}

\* deltas a caller may pass to add_used_today
ApiDeltas == {-2, 2}

\* set_used_today(self.state, d, value) called on the loaded state
SetUsed(d, value) ==
  /\ phase = "running"
  /\ apiOps < MaxApiOps
  /\ LET a == set_used_today(self.state, d, value, file, tmp, "done")
     IN /\ file' = a.file /\ tmp' = a.tmp
        /\ saving' = [on |-> TRUE, before |-> file, new |-> json_dump(a.state), day |-> d,
                      old |-> get_used_today(self.state, d), arg |-> value, ret |-> 0]
        /\ self' = [self EXCEPT !.state = a.state]
  /\ acct' = IF acct.on /\ acct.day = d THEN NoAcct ELSE acct
  /\ lastOp' = "set"
  /\ apiOps' = apiOps + 1
  /\ UNCHANGED <<now, phase, scheduled, runs, ticks, logouts, countdowns, warnings,
                 warnTick, rolled, start, edits, edited, allTicks, accrued, logoff>>

\* add_used_today(self.state, d, delta) called on the loaded state
AddUsed(d, delta) ==
  /\ phase = "running"
  /\ apiOps < MaxApiOps
  /\ LET a == add_used_today(self.state, d, delta, file, tmp, "done")
     IN /\ file' = a.file /\ tmp' = a.tmp
        /\ saving' = [on |-> TRUE, before |-> file, new |-> json_dump(a.state), day |-> d,
                      old |-> get_used_today(self.state, d), arg |-> delta, ret |-> a.ret]
        /\ self' = [self EXCEPT !.state = a.state]
  /\ acct' = IF acct.on /\ acct.day = d
             THEN (IF delta >= 0 THEN [acct EXCEPT !.sum = @ + delta] ELSE NoAcct)
             ELSE IF ~acct.on /\ delta >= 0 /\ get_used_today(self.state, d) >= 0
                  THEN [on |-> TRUE, day |-> d, base |-> get_used_today(self.state, d),
                        sum |-> delta]
                  ELSE acct
  /\ lastOp' = "add"
  /\ apiOps' = apiOps + 1
  /\ UNCHANGED <<now, phase, scheduled, runs, ticks, logouts, countdowns, warnings,
                 warnTick, rolled, start, edits, edited, allTicks, accrued, logoff>>

\* the state files the day accounting is exercised from
ApiFiles ==
  {JsonFile(IntVal(2), NumVal),
   JsonFile(IntVal(300), DictVal([d \in {1} |-> 298]))}

InitApi == Init /\ file \in ApiFiles

\* one run of the program with its day accounting also called directly: the
\* timer ticks, midnight passes, the process is killed inside a save
NextApi ==
  \/ (runs = 0 /\ Start("done", "done"))
  \/ \E pt \in SavePoints : Tick(pt)
  \/ ClockAdvance
  \/ \E d \in Days, value \in ApiValues : SetUsed(d, value)
  \/ \E d \in Days, delta \in ApiDeltas : AddUsed(d, delta)

SpecApi == InitApi /\ [][NextApi]_vars

\* ------------------------------------- the logout action in every configuration

\* pause_and_logout() -> logoff_and_quit() where log_off_windows() runs with
\* DRY_RUN = dry on the platform sys and its two primitives end as
\* primary_ok and fallback_ok say: a message box keeps the window until it
\* is dismissed, without one root.destroy() follows at once
LogOff(dry, sys, primary_ok, fallback_ok) ==
  /\ phase = "running"
  /\ LET out == log_off_windows_in(dry, sys, primary_ok, fallback_ok)
     IN /\ logoff' = [on |-> TRUE, dry |-> dry, sys |-> sys, primary_ok |-> primary_ok,
                      fallback_ok |-> fallback_ok, out |-> out]
        /\ phase' = IF out.box # "none" THEN "dialog" ELSE "destroyed"
        /\ scheduled' = IF out.box # "none" THEN scheduled ELSE FALSE
  /\ logouts' = logouts + 1
  /\ lastOp' = "logoff"
  /\ UNCHANGED <<file, tmp, now, self, runs, ticks, countdowns, warnings, warnTick, rolled,
                 start, edits, edited, saving, apiOps, allTicks, acct, accrued>>

InitLogoff == Init /\ file \in ApiFiles

\* one run of the program whose logout button is pressed under each mode,
\* platform and outcome of the two logoff primitives
NextLogoff ==
  \/ (runs = 0 /\ Start("done", "done"))
  \/ Tick("done")
  \/ ClockAdvance
  \/ \E dry \in BOOLEAN, sys \in Platforms, primary_ok \in BOOLEAN, fallback_ok \in BOOLEAN :
       LogOff(dry, sys, primary_ok, fallback_ok)
  \/ Dismiss

SpecLogoff == InitLogoff /\ [][NextLogoff]_vars

\* ------------------------------------------------------------------ claims

\* a process of this run exists or has ended in root.destroy()
Live == phase \in {"running", "dialog", "destroyed"}

\* the last operation was a tick() that ran to its end
AfterTick == lastOp \in {"start", "tick", "tick_logout"}

\* the last operation was killed inside a save_state
AfterSaveCrash == lastOp \in {"start_crash", "start_tick_crash", "tick_crash"}

\* seconds the document f records for day d, as the next load_state reads it
DurableUsed(f, d) == get_used_today(load_state(f).state, d)

\* C1: in every state between operations (after startup, after every tick,
\* after every rollover) remaining equals max(0, daily_limit - used_today)
\* and is not negative.
C1_RemainingDerived ==
  /\ self.remaining >= 0
  /\ self.remaining = IF self.daily_limit - self.used_today > 0
                      THEN self.daily_limit - self.used_today
                      ELSE 0

\* a tick rolled over to a day whose recorded usage exceeds the limit
C1_Witness ==
  /\ lastOp = "tick_logout"
  /\ rolled.did
  /\ self.used_today > self.daily_limit
  /\ self.remaining = 0

\* the run started with usage 0 and a limit > 0 and has not rolled over
C2_Scenario ==
  /\ Live
  /\ start.used = 0
  /\ start.daily_limit > 0
  /\ self.day = start.day

\* C2 as claimed: after exactly L ticks remaining is 0, the logout has
\* fired exactly once and no (L+1)-th tick is scheduled.
C2_LogoutAtTickL ==
  (C2_Scenario /\ ticks = start.daily_limit)
    => (self.remaining = 0 /\ logouts = 1 /\ ~scheduled)

\* C2 as amended: the L-th tick brings remaining to 0 without logging off
\* and schedules an (L+1)-th tick; the (L+1)-th tick accrues nothing, is the
\* one countdown logout of the run and schedules no further tick.
C2_LogoutAtTickLPlus1 ==
  C2_Scenario =>
    /\ ticks <= start.daily_limit + 1
    /\ countdowns = (IF ticks = start.daily_limit + 1 THEN 1 ELSE 0)
    /\ self.used_today = (IF ticks <= start.daily_limit THEN ticks ELSE start.daily_limit)
    /\ (ticks = start.daily_limit /\ AfterTick) => (self.remaining = 0 /\ scheduled)
    /\ (ticks = start.daily_limit + 1) => (self.remaining = 0 /\ ~scheduled /\ logouts >= 1)

\* the (L+1)-th tick of such a run has logged off
C2_Witness ==
  /\ C2_Scenario
  /\ lastOp = "tick_logout"
  /\ ticks = start.daily_limit + 1
  /\ logouts = 1

\* C3 as claimed: once the logout action has been invoked, by whatever
\* route, no later tick runs, used_today and the persisted usage stay as
\* they are and no warning is shown, for the rest of the run.
C3_NoMutationAfterLogout ==
  [][(logouts >= 1 /\ runs' = runs /\ phase' # "off")
       => /\ ticks' = ticks
          /\ self'.used_today = self.used_today
          /\ file'.usage = file.usage
          /\ warnings' = warnings]_vars

\* C4: between two rollovers of a run (and from startup to the first) the
\* warning popup is shown at most once, the startup popup included.
C4_WarningOncePerDay == warnings <= 1

\* the popup was shown at startup and three ticks have run inside the band
C4_Witness ==
  /\ lastOp = "tick"
  /\ warnings = 1
  /\ warnTick = 0
  /\ ticks >= 3
  /\ self.remaining > 0
  /\ self.remaining <= self.warning_threshold

\* C5: a run that starts with today's usage at or above the limit logs off
\* at once: no tick runs, nothing is accrued or persisted, no popup is
\* shown and no tick is scheduled.
C5_ExhaustedAtStartup ==
  (Live /\ start.used >= start.daily_limit) =>
    /\ ticks = 0
    /\ logouts = 1
    /\ warnings = 0
    /\ ~scheduled
    /\ self.used_today = start.used
    /\ get_used_today(self.state, start.day) = start.used
    /\ file.usage = start.usage

\* a run started with more usage recorded than the limit allows
C5_Witness ==
  /\ lastOp = "start_logout"
  /\ start.used > start.daily_limit
  /\ phase = "dialog"

\* a run started inside the warning band and has not rolled over
C6_Scenario ==
  /\ Live
  /\ start.daily_limit >= WARNING_THRESHOLD_SECONDS
  /\ start.remaining > 0
  /\ start.remaining <= WARNING_THRESHOLD_SECONDS
  /\ self.day = start.day

\* C6: such a run shows the popup before its first tick accrues anything
\* (no tick had begun when it was shown), and the first tick and the later
\* ones do not show it again.
C6_StartupWarning == C6_Scenario => (warnings = 1 /\ warnTick = 0 /\ self.warning_shown)

\* limit = threshold, usage 0: the first tick is done
C6_Witness ==
  /\ C6_Scenario
  /\ lastOp = "start"
  /\ start.daily_limit = WARNING_THRESHOLD_SECONDS
  /\ start.used = 0
  /\ self.used_today = 1

\* C7: when the process is killed inside a save_state, the target path
\* holds the whole document it held before the call or the whole new one,
\* and is unparsable only if it was so before.
C7_SaveAtomic ==
  AfterSaveCrash =>
    /\ saving.on
    /\ file \in {saving.before, saving.new}
    /\ (file.kind # "json" => saving.before = file)

\* killed while the temporary file was half written: the target still
\* holds the previous document
C7_Witness ==
  /\ lastOp = "tick_crash"
  /\ tmp = Garbage
  /\ file = saving.before
  /\ file.kind = "json"
  /\ file # saving.new

\* C8: after every completed set_used_today, add_used_today and accruing
\* tick the state file records, for the day concerned, the value held in
\* memory; a process killed inside a tick's save leaves on disk the day's
\* usage as it was in memory before that tick or after it, so it loses at
\* most that one second.
C8_PersistedAfterMutation ==
  /\ lastOp \in {"set", "add", "start", "tick"} =>
       /\ file.kind = "json"
       /\ file.usage.t = "dict"
       /\ saving.day \in DOMAIN file.usage.m
       /\ file.usage.m[saving.day] = get_used_today(self.state, saving.day)
       /\ file = json_dump(self.state)
  /\ lastOp \in {"start", "tick"} =>
       /\ saving.day = self.day
       /\ file.usage.m[self.day] = self.used_today
  /\ lastOp \in {"start_tick_crash", "tick_crash"} =>
       /\ DurableUsed(file, saving.day) \in {saving.old, DurableUsed(saving.new, saving.day)}
       /\ saving.old >= 0 =>
            DurableUsed(saving.new, saving.day) - DurableUsed(file, saving.day) \in {0, 1}

\* a tick has accrued a second after a direct call changed the day's usage
C8_Witness ==
  /\ lastOp = "tick"
  /\ apiOps >= 1
  /\ ticks >= 2
  /\ file.usage.m[self.day] = self.used_today
  /\ self.used_today >= 2

C10_EditedLimitTakesEffect ==
  (edited.on /\ Live) =>
    /\ (runs = edited.run /\ ~edited.rolled) => self.daily_limit = edited.old
    /\ (runs = edited.run /\ edited.rolled) => self.daily_limit = edited.v
    /\ (runs > edited.run) => self.daily_limit = edited.v

\* C11 as claimed: add_used_today stores and returns max(0, usage[day] + delta)
\* for any integer delta, set_used_today stores max(0, value), and so no day
\* of the usage dict ever holds a negative number.
C11_ClampedAtZero ==
  /\ lastOp = "add" =>
       /\ saving.ret = Max(0, saving.old + saving.arg)
       /\ get_used_today(self.state, saving.day) = Max(0, saving.old + saving.arg)
  /\ lastOp = "set" => get_used_today(self.state, saving.day) = Max(0, saving.arg)
  /\ phase = "running" => \A d \in DOMAIN self.state.usage : self.state.usage[d] >= 0

\* C12: while only add_used_today calls with deltas >= 0 are applied to one
\* day, starting from a recorded usage >= 0 or from no record, the day's
\* usage equals the starting value plus the sum of the deltas, the call just
\* made returned that running total, and the value is not negative.
C12_RunningTotal ==
  (phase = "running" /\ acct.on) =>
    /\ get_used_today(self.state, acct.day) = acct.base + acct.sum
    /\ get_used_today(self.state, acct.day) >= 0
    /\ (lastOp \in {"add", "tick"} /\ saving.day = acct.day) =>
         saving.ret = acct.base + acct.sum

\* two direct calls with delta 2 were made in a row on a day that had usage
C12_Witness ==
  /\ phase = "running"
  /\ lastOp = "add"
  /\ acct.on
  /\ saving.day = acct.day
  /\ acct.base > 0
  /\ acct.sum = 4
  /\ saving.ret = acct.base + 4

\* C13: when the state file parses, its usage field is missing or not a
\* dict and its daily_limit_seconds is an int, load_state returns a dict
\* with an empty usage and that stored limit, which the session then runs
\* under, not DAILY_LIMIT_SECONDS.
C13_UsageResetKeepsLimit ==
  (/\ runs >= 1
   /\ start.read.kind = "json"
   /\ start.read.usage.t # "dict"
   /\ start.read.daily_limit_seconds.t = "int") =>
    /\ start.loaded.usage = EmptyDict
    /\ start.loaded.daily_limit_seconds = start.read.daily_limit_seconds
    /\ start.daily_limit = start.read.daily_limit_seconds.v
    /\ start.used = 0

\* the program was started on a file whose usage is a number and whose
\* limit is the int 2, and runs under the limit 2
C13_Witness ==
  /\ phase = "running"
  /\ start.read = JsonFile(IntVal(2), NumVal)
  /\ start.loaded.usage = EmptyDict
  /\ self.daily_limit = 2
  /\ self.daily_limit # DAILY_LIMIT_SECONDS

\* state.json was edited by hand during the current run
EditedThisRun == edited.on /\ edited.run = runs

ValidState(st) ==
  /\ st.daily_limit_seconds.t = "int"
  /\ \A d \in DOMAIN st.usage : st.usage[d] >= 0

\* C15: once save_state has written a valid state dict (an int limit, days
\* mapped to ints >= 0), load_state on the file returns a dict equal to it,
\* and does so without rewriting the file.
C15_SaveLoadRoundTrip ==
  (lastOp \in {"start", "tick", "set", "add"} /\ saving.on /\ ValidState(self.state)) =>
    /\ file = saving.new
    /\ load_state(file).state = self.state
    /\ ~load_state(file).saves

\* a dict with usage on both days was saved and loads back equal
C15_Witness ==
  /\ lastOp \in {"set", "add"}
  /\ ValidState(self.state)
  /\ DOMAIN self.state.usage = {1, 2}
  /\ \E d \in {1, 2} : self.state.usage[d] > 0
  /\ load_state(file).state = self.state

\* the primitive p is among those the last log_off_windows attempted
Attempted(p) == \E i \in 1..Len(logoff.out.attempts) : logoff.out.attempts[i] = p

\* C16: with DRY_RUN off on Windows, log_off_windows attempts shutdown /l
\* first, attempts ExitWindowsEx if and only if shutdown /l failed, and shows
\* the "Logout Failed" error, with both exceptions in it, if and only if
\* both failed.
C16_PrimaryThenFallback ==
  (lastOp = "logoff" /\ ~logoff.dry /\ logoff.sys = "Windows") =>
    /\ Len(logoff.out.attempts) >= 1
    /\ logoff.out.attempts[1] = "shutdown"
    /\ Attempted("ExitWindowsEx") <=> ~logoff.primary_ok
    /\ Attempted("ExitWindowsEx") => logoff.out.attempts = <<"shutdown", "ExitWindowsEx">>
    /\ logoff.out.box = "showerror" <=> (~logoff.primary_ok /\ ~logoff.fallback_ok)
    /\ logoff.out.box = "showerror" => logoff.out.errors = <<"shutdown", "ExitWindowsEx">>
    /\ logoff.out.box # "showerror" => (logoff.out.box = "none" /\ logoff.out.errors = <<>>)
    /\ logoff.out.logged_off <=> (logoff.primary_ok \/ logoff.fallback_ok)

\* shutdown /l failed, ExitWindowsEx was attempted after it and failed too,
\* and the error box is open
C16_Witness ==
  /\ lastOp = "logoff"
  /\ ~logoff.dry
  /\ logoff.sys = "Windows"
  /\ ~logoff.primary_ok
  /\ ~logoff.fallback_ok
  /\ logoff.out.attempts = <<"shutdown", "ExitWindowsEx">>
  /\ logoff.out.box = "showerror"
  /\ phase = "dialog"

\* C17 as claimed: off Windows, log_off_windows reports the unsupported
\* platform and attempts neither primitive.
C17_UnsupportedPlatform ==
  (lastOp = "logoff" /\ logoff.sys # "Windows") =>
    /\ logoff.out.box = "showwarning"
    /\ logoff.out.attempts = <<>>

\* C17 as the code has it: off Windows, log_off_windows attempts neither
\* primitive; with DRY_RUN off it reports the unsupported platform, with
\* DRY_RUN on it shows the simulated log off like on any platform.
C17_UnsupportedPlatformRealMode ==
  (lastOp = "logoff" /\ logoff.sys # "Windows") =>
    /\ logoff.out.attempts = <<>>
    /\ ~logoff.out.logged_off
    /\ ~logoff.dry => logoff.out.box = "showwarning"
    /\ logoff.dry => logoff.out.box = "showinfo"

\* with DRY_RUN off on Linux, where both primitives would have failed, the
\* "Not Windows" warning is open and nothing was attempted
C17_Witness ==
  /\ lastOp = "logoff"
  /\ ~logoff.dry
  /\ logoff.sys = "Linux"
  /\ ~logoff.primary_ok
  /\ logoff.out.box = "showwarning"
  /\ logoff.out.attempts = <<>>
  /\ phase = "dialog"

\* C18 as claimed: whatever the order of ticks, of the "Pause & Log Out"
\* button and of the window's close button within one run,
\* log_off_windows is called at most once in the run.
C18_LogoutAtMostOnce == logouts <= 1

\* C19: when a tick logs off because remaining is 0 on a day on which the
\* ticks of this run accrued at least one second, and daily_limit >=
\* warning_threshold >= 1, the popup was shown earlier on that day of this
\* run: warning_shown is set and the popup dates from an earlier tick or
\* from startup.
C19_WarnedBeforeCountdownLogout ==
  (/\ lastOp = "tick_logout"
   /\ accrued >= 1
   /\ self.daily_limit >= self.warning_threshold
   /\ self.warning_threshold >= 1) =>
    /\ self.warning_shown
    /\ warnings = 1
    /\ warnTick >= 0
    /\ warnTick < ticks

\* after midnight a tick showed the popup for the new day, two seconds
\* were accrued on it and the next tick logged off
C19_Witness ==
  /\ lastOp = "tick_logout"
  /\ accrued = 2
  /\ self.daily_limit = 300
  /\ self.day = 2
  /\ self.warning_shown
  /\ warnTick >= 1
  /\ self.used_today = 300

\* the step runs tick(): a timer callback, or the call that ends __init__
TickRan ==
  \/ (runs' = runs /\ ticks' = ticks + 1)
  \/ (runs' = runs + 1 /\ ticks' = 1)

\* C20: a tick accrues only while remaining > 0. A tick that finds the
\* usage on file for today below the session's limit leaves it as it is or
\* one second higher, never above the limit; a tick that finds it at or
\* above the limit leaves the file as it is; no tick changes the usage on
\* file of another day.
C20_TickAccruesBelowLimit ==
  [][TickRan =>
       LET lim == IF runs' = runs THEN self.daily_limit ELSE start'.daily_limit
           u == DurableUsed(file, now)
           u2 == DurableUsed(file', now)
       IN /\ u < lim => (u2 \in {u, u + 1} /\ u2 <= lim)
          /\ u >= lim => file' = file
          /\ \A d \in Days \ {now} : DurableUsed(file', d) = DurableUsed(file, d)]_vars

\* the ticks accrued up to the limit, the next tick logged off without
\* accruing, and the file records another day as well
C20_Witness ==
  /\ lastOp = "tick_logout"
  /\ accrued >= 1
  /\ ticks >= 3
  /\ DurableUsed(file, self.day) = self.daily_limit
  /\ \E d \in Days \ {self.day} : DurableUsed(file, d) > 0

====
